---- MODULE Spec2Model ----
(***************************************************************************)
(* Delivery tracker (src/src/App.jsx): the route model, the position       *)
(* query and the start / pause / reset / frame-callback state machine of   *)
(* the App component.                                                      *)
(*                                                                         *)
(* Numbers.  The source computes in IEEE doubles; here every quantity is   *)
(* an integer.  Time is counted in units of TRIP_DURATION / 4, so the      *)
(* normalised progress t of the source is tNum / TRIP_DURATION with tNum   *)
(* an integer, and the published percentage t * 100 is exact.  Points lie  *)
(* on an integer grid, calculateDistanceKm is the planar distance rounded  *)
(* down, and lerp rounds down.  Comparisons of distances (the segment      *)
(* scan) are done on cross-multiplied integers and are exact.              *)
(*                                                                         *)
(* Rendering.  Every handler is one atomic step and React's re-render is   *)
(* taken to have committed before the next event: a handler reads the      *)
(* state its predecessors set.  The one closure that outlives a render is  *)
(* the tick callback handed to requestAnimationFrame: it keeps the         *)
(* followRider value of the render in which Start was clicked, and         *)
(* reschedules itself, so a pending frame carries that value.              *)
(*                                                                         *)
(* Clock.  performance.now() and the timestamp passed to a frame callback  *)
(* read the same clock, now; a frame callback receives the reading at the  *)
(* time it runs.                                                           *)
(***************************************************************************)
EXTENDS Integers, Sequences, FiniteSets

VARIABLES
    now,                    \* the wall clock (performance.now / frame timestamps)
    mounted,                \* the component is mounted (the effect's cleanup has not run)
    mapLoaded,              \* useState(false)
    mapError,               \* useState(null): TRUE when an error message is set
    loadTimeout,            \* the 12 s load timer is armed
    routeLoading,           \* useState(false)
    routeError,             \* useState(null): TRUE when the advisory is set
    fetchState,             \* the fetch of fetchRoute: "none", "inflight", "done"
    isAnimating,            \* useState(false)
    isPaused,               \* useState(false)
    followRider,            \* useState(false)
    riderPosition,          \* useState(PICKUP)
    progress,               \* useState(0): percent
    routeDistanceKm,        \* useState(routeModelRef.current.totalKm)
    isRunningRef,           \* useRef(false)
    startTimestampRef,      \* useRef(null)
    elapsedBeforeStartRef,  \* useRef(0)
    animationFrameId,       \* useRef(null)
    routeModelRef,          \* useRef(buildRouteModel([...]))
    pendingFrames,          \* the browser's queue of requested animation frames
    lastOp,                 \* history: the last event and what it computed
    segFrom,                \* history: the phase the last accepted Start was clicked in
    tripFrom,               \* history: the phase (Idle or Completed) this trip was started in
    runMs,                  \* history: clock units this trip spent in an anchored run segment
    pausedMs                \* history: clock units this trip spent paused

vars == << now, mounted, mapLoaded, mapError, loadTimeout, routeLoading, routeError,
           fetchState, isAnimating, isPaused, followRider, riderPosition,
           progress, routeDistanceKm, isRunningRef, startTimestampRef,
           elapsedBeforeStartRef, animationFrameId, routeModelRef,
           pendingFrames, lastOp, segFrom, tripFrom, runMs, pausedMs >>

\* The state of the component proper, without the clock and the history.
appVars == << mounted, mapLoaded, mapError, loadTimeout, routeLoading, routeError,
              fetchState, isAnimating, isPaused, followRider, riderPosition,
              progress, routeDistanceKm, isRunningRef, startTimestampRef,
              elapsedBeforeStartRef, animationFrameId, routeModelRef,
              pendingFrames >>

----------------------------------------------------------------------------
(* Bounds and constants *)

MaxTime == 5            \* the clock stops advancing here
MaxFrameIds == 3        \* distinct request ids in simultaneous use
MaxPoints == 3          \* longest polyline handed to buildRouteModel on its own
QueryMargin == 1        \* how far outside [0, 1] positionAtProgress is queried

TRIP_DURATION == 4      \* 45000 ms, in clock units of 11250 ms

Null == 0 - 1           \* null of a timestamp ref
NoFrame == 0            \* null of animationFrameId (request ids are positive)

PICKUP == [lng |-> 16, lat |-> 12]
DROP   == [lng |-> 0,  lat |-> 0]

\* The geometries the routing service may answer with: a road route whose
\* first point is snapped off the pickup, a route with a repeated point, and
\* an empty geometry.
RoutePayloads ==
    { << <<16, 10>>, <<16, 0>>, <<0, 0>> >>,
      << <<16, 12>>, <<16, 12>>, <<0, 0>> >>,
      << >> }

Min(a, b) == IF a <= b THEN a ELSE b
Max(a, b) == IF a >= b THEN a ELSE b

----------------------------------------------------------------------------
(* Pure functions *)

ISqrt(n) == CHOOSE r \in 0..n : r * r <= n /\ (r + 1) * (r + 1) > n

\* Great-circle distance; on the grid, the planar distance rounded down.
calculateDistanceKm(point1, point2) ==
    LET dLat == point2.lat - point1.lat
        dLng == point2.lng - point1.lng
    IN  ISqrt(dLat * dLat + dLng * dLng)

\* a + (b - a) * t with t = num / den, den > 0, or t = 0 when den = 0.
lerp(a, b, num, den) ==
    IF den = 0 THEN a ELSE a + ((b - a) * num) \div den

AsPoint(c) == [lng |-> c[1], lat |-> c[2]]

\* Variant of KmAfter: the segment's length is pushed, not the running total.
KmAfterNotAccumulated(coordinates, i) ==
    IF i = 0 THEN 0
    ELSE calculateDistanceKm(AsPoint(coordinates[i]), AsPoint(coordinates[i + 1]))

\* totalKm after the loop has run i times: the length of the first i segments.
RECURSIVE KmAfter(_, _)
KmAfter(coordinates, i) ==
    IF i = 0 THEN 0
    ELSE KmAfter(coordinates, i - 1)
         + calculateDistanceKm(AsPoint(coordinates[i]), AsPoint(coordinates[i + 1]))

\* A JavaScript value handed to buildRouteModel: an array of [lng, lat]
\* pairs, or something that is no array (undefined, null, a string).
JsArray(items) == [kind |-> "array", items |-> items]
JsOther(kind)  == [kind |-> kind, items |-> << >>]

\* Variant of IsDegenerate: "length < 1" in place of "length < 2".
IsDegenerateEmptyOnly(value) ==
    value.kind # "array" \/ Len(value.items) < 1

\* "!Array.isArray(coordinates) || coordinates.length < 2"
IsDegenerate(value) ==
    value.kind # "array" \/ Len(value.items) < 2

buildRouteModel(value) ==
    LET coordinates == value.items IN
    IF IsDegenerate(value)
    THEN [ coordinates  |-> << <<PICKUP.lng, PICKUP.lat>>, <<DROP.lng, DROP.lat>> >>,
           cumulativeKm |-> << 0, calculateDistanceKm(PICKUP, DROP) >>,
           totalKm      |-> calculateDistanceKm(PICKUP, DROP) ]
    ELSE [ coordinates  |-> coordinates,
           cumulativeKm |-> [ i \in 1..Len(coordinates) |-> KmAfter(coordinates, i - 1) ],
           totalKm      |-> KmAfter(coordinates, Len(coordinates) - 1) ]

\* Variant of SegScan: "<=" in place of "<", so a tie at a cumulative
\* boundary goes to the later segment.
RECURSIVE SegScanTiesLater(_, _, _, _)
SegScanTiesLater(cum, totalKm, tNum, segIdx) ==
    IF segIdx < Len(cum) - 1 /\ cum[segIdx + 1] * TRIP_DURATION <= totalKm * tNum
    THEN SegScanTiesLater(cum, totalKm, tNum, segIdx + 1)
    ELSE segIdx

\* The scan "while (segIdx < cum.length - 1 && cum[segIdx + 1] < targetKm)",
\* with targetKm = totalKm * tNum / TRIP_DURATION and indices from 1.
RECURSIVE SegScan(_, _, _, _)
SegScan(cum, totalKm, tNum, segIdx) ==
    IF segIdx < Len(cum) /\ cum[segIdx + 1] * TRIP_DURATION < totalKm * tNum
    THEN SegScan(cum, totalKm, tNum, segIdx + 1)
    ELSE segIdx

\* Variant of AtOrBeforeStart: "t === 0" in place of "t <= 0".
AtStartOnly(tNum) == tNum = 0

\* "if (t <= 0)" of positionAtProgress.
AtOrBeforeStart(tNum) == tNum <= 0

\* "if (t >= 1)" of positionAtProgress.
AtOrPastEnd(tNum) == tNum >= TRIP_DURATION

\* positionAtProgress(routeModel, t) for t = tNum / TRIP_DURATION.
positionAtProgress(routeModel, tNum) ==
    LET coords == routeModel.coordinates
        cum    == routeModel.cumulativeKm
    IN  IF AtOrBeforeStart(tNum) THEN AsPoint(coords[1])
        ELSE IF AtOrPastEnd(tNum) THEN AsPoint(coords[Len(coords)])
        ELSE LET segIdx     == SegScan(cum, routeModel.totalKm, tNum, 1)
                 segStartKm == cum[segIdx]
                 segEndKm   == cum[segIdx + 1]
                 num        == routeModel.totalKm * tNum - segStartKm * TRIP_DURATION
                 den        == (segEndKm - segStartKm) * TRIP_DURATION
                 a          == coords[segIdx]
                 b          == coords[segIdx + 1]
             IN  [ lng |-> lerp(a[1], b[1], num, den),
                   lat |-> lerp(a[2], b[2], num, den) ]

FallbackCoordinates == << <<PICKUP.lng, PICKUP.lat>>, <<DROP.lng, DROP.lat>> >>

----------------------------------------------------------------------------
(* The phase of the trip, read off the component's flags *)

Phase ==
    IF isRunningRef THEN "Running"
    ELSE IF isPaused THEN "Paused"
    ELSE IF progress = 100 THEN "Completed"
    ELSE "Idle"

\* What an event that is not a frame callback records.
Op(name) == [op |-> name, from |-> Phase, ms |-> 0, first |-> FALSE,
             pub |-> FALSE, eased |-> FALSE]

\* requestAnimationFrame returns an id no live handle holds.
FreshId(used) == CHOOSE i \in 1..MaxFrameIds : i \notin used /\ \A j \in 1..(i - 1) : j \in used

\* cancelAnimationFrame(id) on a queue of frames.
CancelFrame(frames, id) == { g \in frames : g.id # id }

----------------------------------------------------------------------------
Init ==
    /\ now = 0
    /\ mounted = TRUE
    /\ mapLoaded = FALSE
    /\ mapError = FALSE
    /\ loadTimeout = TRUE
    /\ routeLoading = FALSE
    /\ routeError = FALSE
    /\ fetchState = "none"
    /\ isAnimating = FALSE
    /\ isPaused = FALSE
    /\ followRider = FALSE
    /\ riderPosition = PICKUP
    /\ progress = 0
    /\ routeModelRef = buildRouteModel(JsArray(FallbackCoordinates))
    /\ routeDistanceKm = buildRouteModel(JsArray(FallbackCoordinates)).totalKm
    /\ isRunningRef = FALSE
    /\ startTimestampRef = Null
    /\ elapsedBeforeStartRef = 0
    /\ animationFrameId = NoFrame
    /\ pendingFrames = {}
    /\ lastOp = [op |-> "init", from |-> "Idle", ms |-> 0, first |-> FALSE,
                 pub |-> FALSE, eased |-> FALSE]
    /\ segFrom = "Idle"
    /\ tripFrom = "Idle"
    /\ runMs = 0
    /\ pausedMs = 0


----------------------------------------------------------------------------
(* Pieces of the handlers *)


\* Variant of StartGuard: the readiness return is missing.
StartGuardUngated == ~isRunningRef

\* Variant of StartGuard: the "already running" return is missing.
StartGuardNoRunningCheck == mapLoaded /\ ~mapError

\* handleStart proceeds past its two early returns.
StartGuard == mapLoaded /\ ~mapError /\ ~isRunningRef

\* "if (animationFrameId.current) cancelAnimationFrame(animationFrameId.current)"
CancelCurrent(frames) ==
    IF animationFrameId # NoFrame THEN CancelFrame(frames, animationFrameId) ELSE frames


\* Variant of PauseGuard: the early return is missing.
PauseGuardMissing == TRUE

\* handlePause proceeds past its early return.
PauseGuard == isAnimating


\* Variant of PauseFrames: the handle is cleared without cancelling the frame.
PauseFramesKept == pendingFrames

\* The browser's queue after handlePause.
PauseFrames == CancelCurrent(pendingFrames)


\* Variant of PauseFold: "=" in place of "+=".
PauseFoldOverwrite(accumulated, start, t) == t - start

\* "elapsedBeforeStartRef.current += performance.now() - startTimestampRef.current"
PauseFold(accumulated, start, t) == accumulated + (t - start)


\* Variant of PauseAnchor: the run segment's anchor is not cleared.
PauseAnchorKept == startTimestampRef

\* "startTimestampRef.current = null" of handlePause, after the fold.
PauseAnchor == Null


\* Variant of ResetFrames: the cancelAnimationFrame call is missing.
ResetFramesKept == pendingFrames

\* The browser's queue after handleReset.
ResetFrames == CancelCurrent(pendingFrames)


\* Variant of ResetPosition: the position is not published.
ResetPositionKept == riderPosition

\* "setRiderPosition(PICKUP)" of handleReset.
ResetPosition == PICKUP

\* Variant of ResetElapsed: the accumulator is not cleared.
ResetElapsedKept == elapsedBeforeStartRef

\* "elapsedBeforeStartRef.current = 0" of handleReset.
ResetElapsed == 0


\* Variant of TickElapsedMs: the time of the current segment is not added.
TickElapsedFrozen(timestamp, start) == elapsedBeforeStartRef

\* Variant of TickElapsedMs: the accumulated time is not added.
TickElapsedNoCarry(timestamp, start) == timestamp - start

\* "timestamp - startTimestampRef.current + elapsedBeforeStartRef.current"
TickElapsedMs(timestamp, start) == timestamp - start + elapsedBeforeStartRef

\* Variant of TickT: the clamp to 1 is missing.
TickTUnclamped(elapsedMs) == elapsedMs

\* "Math.min(elapsedMs / TRIP_DURATION, 1)", as a numerator over TRIP_DURATION.
TickT(elapsedMs) == Min(elapsedMs, TRIP_DURATION)


\* Variant of TickCompletes: "t > 1" in place of "t >= 1".
TickCompletesStrict(tNum) == tNum > TRIP_DURATION

\* "if (t >= 1) { ... return; }": the sample that ends the trip.
TickCompletes(tNum) == tNum >= TRIP_DURATION


\* Variant of CompletionElapsed: the accumulator is not cleared.
CompletionElapsedKept == elapsedBeforeStartRef

\* "elapsedBeforeStartRef.current = 0" of the completing sample.
CompletionElapsed == 0

\* Variant of CompletionAnimating: the flag is not cleared.
CompletionAnimatingKept == isAnimating

\* "setIsAnimating(false)" of the completing sample.
CompletionAnimating == FALSE

\* Variant of RouteArriveModel: the held model is edited in place, its
\* coordinates replaced and its distances left as they were.
RouteArriveModelPartial(coords) ==
    [routeModelRef EXCEPT !.coordinates = buildRouteModel(JsArray(coords)).coordinates]

\* "const model = buildRouteModel(coords); routeModelRef.current = model":
\* the value the ref holds after the one assignment.
RouteArriveModel(coords) == buildRouteModel(JsArray(coords))

\* Variant of RouteFailAdvisory: the advisory is not set.
RouteFailAdvisoryMissing == FALSE

\* "setRouteError('Could not fetch a real route. ...')" of the catch block.
RouteFailAdvisory == TRUE

\* The Distance Remaining statistic, in hundredths of a km: progress is a
\* percentage, so routeDistanceKm * (1 - progress / 100) is remaining / 100.
\* An integer is always finite: the branch for a non-finite value, which
\* falls back to calculateDistanceKm(riderPosition, DROP), has no case here.
distanceRemainingKm ==
    LET remaining == routeDistanceKm * (100 - progress)
    IN  Max(0, remaining)

\* The frame a handler of the current render requests: its tick closes over
\* the followRider of that render.
RequestFrame(frames, follow) ==
    LET id == FreshId({animationFrameId} \cup { g.id : g \in frames })
    IN  [id |-> id, follow |-> follow]

----------------------------------------------------------------------------
(* Events *)

AdvanceTime ==
    /\ mounted
    /\ now < MaxTime
    /\ now' = now + 1
    /\ runMs' = IF isRunningRef /\ startTimestampRef # Null THEN runMs + 1 ELSE runMs
    /\ pausedMs' = IF isPaused THEN pausedMs + 1 ELSE pausedMs
    /\ lastOp' = Op("time")
    /\ UNCHANGED << appVars, segFrom, tripFrom >>

\* map.current.on('load', ...), which ends by calling fetchRoute().
MapLoad ==
    /\ mounted
    /\ UNCHANGED mounted
    /\ ~mapLoaded
    /\ loadTimeout' = FALSE
    /\ mapError' = FALSE
    /\ mapLoaded' = TRUE
    /\ routeError' = FALSE
    /\ routeLoading' = TRUE
    /\ fetchState' = "inflight"
    /\ lastOp' = Op("load")
    /\ UNCHANGED << now, isAnimating, isPaused, followRider, riderPosition, progress,
                    routeDistanceKm, isRunningRef, startTimestampRef,
                    elapsedBeforeStartRef, animationFrameId, routeModelRef,
                    pendingFrames, segFrom, tripFrom, runMs, pausedMs >>

\* map.current.on('error', ...)
MapErrorEvent ==
    /\ mounted
    /\ UNCHANGED mounted
    /\ mapError' = TRUE
    /\ lastOp' = Op("maperror")
    /\ UNCHANGED << now, mapLoaded, loadTimeout, routeLoading, routeError, fetchState,
                    isAnimating, isPaused, followRider, riderPosition, progress,
                    routeDistanceKm, isRunningRef, startTimestampRef,
                    elapsedBeforeStartRef, animationFrameId, routeModelRef,
                    pendingFrames, segFrom, tripFrom, runMs, pausedMs >>

\* The load timer fires: setMapError(prev => prev ?? message) unless loaded.
LoadTimeout ==
    /\ mounted
    /\ UNCHANGED mounted
    /\ loadTimeout
    /\ loadTimeout' = FALSE
    /\ mapError' = (mapError \/ ~mapLoaded)
    /\ lastOp' = Op("timeout")
    /\ UNCHANGED << now, mapLoaded, routeLoading, routeError, fetchState,
                    isAnimating, isPaused, followRider, riderPosition, progress,
                    routeDistanceKm, isRunningRef, startTimestampRef,
                    elapsedBeforeStartRef, animationFrameId, routeModelRef,
                    pendingFrames, segFrom, tripFrom, runMs, pausedMs >>

\* fetchRoute's try block runs to its end with the geometry coords.
RouteArrive(coords) ==
    /\ mounted
    /\ UNCHANGED mounted
    /\ fetchState = "inflight"
    /\ routeModelRef' = RouteArriveModel(coords)
    /\ routeDistanceKm' = RouteArriveModel(coords).totalKm
    /\ routeLoading' = FALSE
    /\ fetchState' = "done"
    /\ lastOp' = Op("route")
    /\ UNCHANGED << now, mapLoaded, mapError, loadTimeout, routeError,
                    isAnimating, isPaused, followRider, riderPosition, progress,
                    isRunningRef, startTimestampRef, elapsedBeforeStartRef,
                    animationFrameId, pendingFrames, segFrom, tripFrom, runMs, pausedMs >>

\* fetchRoute's catch block, for an error that is not an abort.
RouteFail ==
    /\ mounted
    /\ UNCHANGED mounted
    /\ fetchState = "inflight"
    /\ routeError' = RouteFailAdvisory
    /\ routeModelRef' = buildRouteModel(JsArray(FallbackCoordinates))
    /\ routeDistanceKm' = buildRouteModel(JsArray(FallbackCoordinates)).totalKm
    /\ routeLoading' = FALSE
    /\ fetchState' = "done"
    /\ lastOp' = Op("routefail")
    /\ UNCHANGED << now, mapLoaded, mapError, loadTimeout,
                    isAnimating, isPaused, followRider, riderPosition, progress,
                    isRunningRef, startTimestampRef, elapsedBeforeStartRef,
                    animationFrameId, pendingFrames, segFrom, tripFrom, runMs, pausedMs >>

\* The Follow Rider checkbox.
ToggleFollow ==
    /\ mounted
    /\ UNCHANGED mounted
    /\ followRider' = ~followRider
    /\ lastOp' = Op("follow")
    /\ UNCHANGED << now, mapLoaded, mapError, loadTimeout, routeLoading, routeError,
                    fetchState, isAnimating, isPaused, riderPosition, progress,
                    routeDistanceKm, isRunningRef, startTimestampRef,
                    elapsedBeforeStartRef, animationFrameId, routeModelRef,
                    pendingFrames, segFrom, tripFrom, runMs, pausedMs >>

HandleStart ==
    /\ mounted
    /\ lastOp' = Op("start")
    /\ IF ~StartGuard
       THEN UNCHANGED << appVars, segFrom, tripFrom, runMs, pausedMs >>
       ELSE /\ riderPosition' = IF ~isPaused /\ progress = 0 THEN PICKUP ELSE riderPosition
            /\ isRunningRef' = TRUE
            /\ isAnimating' = TRUE
            /\ isPaused' = FALSE
            /\ startTimestampRef' = Null
            /\ LET kept  == CancelCurrent(pendingFrames)
                   frame == RequestFrame(kept, followRider)
               IN  /\ animationFrameId' = frame.id
                   /\ pendingFrames' = kept \cup {frame}
            /\ segFrom' = Phase
            /\ tripFrom' = IF isPaused THEN tripFrom ELSE Phase
            /\ runMs' = IF isPaused THEN runMs ELSE 0
            /\ pausedMs' = IF isPaused THEN pausedMs ELSE 0
            /\ UNCHANGED << mounted, mapLoaded, mapError, loadTimeout, routeLoading,
                            routeError, fetchState, followRider, progress,
                            routeDistanceKm, elapsedBeforeStartRef, routeModelRef >>
    /\ UNCHANGED now

HandlePause ==
    /\ mounted
    /\ lastOp' = Op("pause")
    /\ IF ~PauseGuard
       THEN UNCHANGED appVars
       ELSE /\ isPaused' = TRUE
            /\ isAnimating' = FALSE
            /\ isRunningRef' = FALSE
            /\ pendingFrames' = PauseFrames
            /\ animationFrameId' = NoFrame
            /\ IF startTimestampRef # Null
               THEN /\ elapsedBeforeStartRef' =
                            PauseFold(elapsedBeforeStartRef, startTimestampRef, now)
                    /\ startTimestampRef' = PauseAnchor
               ELSE UNCHANGED << elapsedBeforeStartRef, startTimestampRef >>
            /\ UNCHANGED << mounted, mapLoaded, mapError, loadTimeout, routeLoading,
                            routeError, fetchState, followRider, riderPosition,
                            progress, routeDistanceKm, routeModelRef >>
    /\ UNCHANGED << now, segFrom, tripFrom, runMs, pausedMs >>

HandleReset ==
    /\ mounted
    /\ UNCHANGED mounted
    /\ lastOp' = Op("reset")
    /\ isAnimating' = FALSE
    /\ isPaused' = FALSE
    /\ progress' = 0
    /\ riderPosition' = ResetPosition
    /\ isRunningRef' = FALSE
    /\ startTimestampRef' = Null
    /\ elapsedBeforeStartRef' = ResetElapsed
    /\ pendingFrames' = ResetFrames
    /\ runMs' = 0
    /\ pausedMs' = 0
    /\ tripFrom' = "Idle"
    /\ UNCHANGED << now, mapLoaded, mapError, loadTimeout, routeLoading, routeError,
                    fetchState, followRider, routeDistanceKm, animationFrameId,
                    routeModelRef, segFrom >>

\* The browser takes the requested frame f off its queue and calls its tick
\* with the current clock reading.
Tick(f) ==
    /\ mounted
    /\ f \in pendingFrames
    /\ LET queue == pendingFrames \ {f}
       IN  IF ~isRunningRef
           THEN /\ pendingFrames' = queue
                /\ lastOp' = [Op("tick") EXCEPT !.eased = FALSE]
                /\ UNCHANGED << mounted, mapLoaded, mapError, loadTimeout, routeLoading,
                                routeError, fetchState, isAnimating, isPaused,
                                followRider, riderPosition, progress, routeDistanceKm,
                                isRunningRef, startTimestampRef, elapsedBeforeStartRef,
                                animationFrameId, routeModelRef >>
           ELSE LET start     == IF startTimestampRef = Null THEN now ELSE startTimestampRef
                    elapsedMs == TickElapsedMs(now, start)
                    tNum      == TickT(elapsedMs)
                IN  /\ riderPosition' = positionAtProgress(routeModelRef, tNum)
                    /\ progress' = (tNum * 100) \div TRIP_DURATION
                    /\ lastOp' = [op |-> "tick", from |-> Phase, ms |-> elapsedMs,
                                  first |-> (startTimestampRef = Null),
                                  pub |-> TRUE, eased |-> f.follow]
                    /\ IF TickCompletes(tNum)
                       THEN /\ isRunningRef' = FALSE
                            /\ isAnimating' = CompletionAnimating
                            /\ isPaused' = FALSE
                            /\ startTimestampRef' = Null
                            /\ elapsedBeforeStartRef' = CompletionElapsed
                            /\ pendingFrames' = CancelCurrent(queue)
                            /\ animationFrameId' = NoFrame
                       ELSE /\ startTimestampRef' = start
                            /\ LET frame == RequestFrame(queue, f.follow)
                               IN  /\ animationFrameId' = frame.id
                                   /\ pendingFrames' = queue \cup {frame}
                            /\ UNCHANGED << isRunningRef, isAnimating, isPaused,
                                            elapsedBeforeStartRef >>
                    /\ UNCHANGED << mounted, mapLoaded, mapError, loadTimeout,
                                    routeLoading, routeError, fetchState, followRider,
                                    routeDistanceKm, routeModelRef >>
    /\ UNCHANGED << now, segFrom, tripFrom, runMs, pausedMs >>

Frame == \E f \in pendingFrames : Tick(f)

\* The cleanup of the map effect: the current frame is cancelled and the
\* fetch aborted.  An aborted fetch rejects with an AbortError, for which
\* fetchRoute's catch block returns at once and its finally block clears
\* routeLoading.  Nothing runs in the component afterwards.
Unmount ==
    /\ mounted
    /\ mounted' = FALSE
    /\ pendingFrames' = CancelCurrent(pendingFrames)
    /\ fetchState' = IF fetchState = "inflight" THEN "aborted" ELSE fetchState
    /\ routeLoading' = IF fetchState = "inflight" THEN FALSE ELSE routeLoading
    /\ lastOp' = Op("unmount")
    /\ UNCHANGED << now, mapLoaded, mapError, loadTimeout, routeError,
                    isAnimating, isPaused, followRider, riderPosition, progress,
                    routeDistanceKm, isRunningRef, startTimestampRef,
                    elapsedBeforeStartRef, animationFrameId, routeModelRef,
                    segFrom, tripFrom, runMs, pausedMs >>

RouteResponse == \E coords \in RoutePayloads : RouteArrive(coords)

Next ==
    \/ AdvanceTime
    \/ MapLoad
    \/ MapErrorEvent
    \/ LoadTimeout
    \/ RouteResponse
    \/ RouteFail
    \/ ToggleFollow
    \/ HandleStart
    \/ HandlePause
    \/ HandleReset
    \/ Frame
    \/ Unmount

Spec == Init /\ [][Next]_vars

----------------------------------------------------------------------------
(* The two pure functions on their own: buildRouteModel applied to every   *)
(* polyline of up to MaxPoints grid points and to values that are no       *)
(* array, and positionAtProgress applied to the model last built for every *)
(* t from below 0 to above 1.  The model built is kept in routeModelRef,   *)
(* the position returned in riderPosition.                                 *)

GridPoints == { <<16, 12>>, <<16, 0>>, <<0, 0>> }

Polylines == UNION { [1..n -> GridPoints] : n \in 0..MaxPoints }

BuildInputs ==
    { JsArray(c) : c \in Polylines } \cup { JsOther("undefined"), JsOther("string") }

QueryTs == (0 - QueryMargin)..(TRIP_DURATION + QueryMargin)

Build(value) ==
    /\ UNCHANGED mounted
    /\ routeModelRef' = buildRouteModel(value)
    /\ routeDistanceKm' = buildRouteModel(value).totalKm
    /\ lastOp' = [op |-> "build", input |-> value]
    /\ UNCHANGED << now, mapLoaded, mapError, loadTimeout, routeLoading, routeError,
                    fetchState, isAnimating, isPaused, followRider, riderPosition,
                    progress, isRunningRef, startTimestampRef, elapsedBeforeStartRef,
                    animationFrameId, pendingFrames, segFrom, tripFrom, runMs,
                    pausedMs >>

Query(tNum) ==
    /\ UNCHANGED mounted
    /\ riderPosition' = positionAtProgress(routeModelRef, tNum)
    /\ lastOp' = [op |-> "query", t |-> tNum,
                  segIdx |-> IF AtOrBeforeStart(tNum) \/ AtOrPastEnd(tNum) THEN 0
                             ELSE SegScan(routeModelRef.cumulativeKm,
                                          routeModelRef.totalKm, tNum, 1)]
    /\ UNCHANGED << now, mapLoaded, mapError, loadTimeout, routeLoading, routeError,
                    fetchState, isAnimating, isPaused, followRider, progress,
                    routeDistanceKm, isRunningRef, startTimestampRef,
                    elapsedBeforeStartRef, animationFrameId, routeModelRef,
                    pendingFrames, segFrom, tripFrom, runMs, pausedMs >>

BuildAny == \E value \in BuildInputs : Build(value)

QueryAny == \E tNum \in QueryTs : Query(tNum)

PureNext == BuildAny \/ QueryAny

PureSpec == Init /\ [][PureNext]_vars

----------------------------------------------------------------------------
(* The trip under fair scheduling.  The behaviours start where Spec is     *)
(* after the map has loaded and the routing service has answered, and      *)
(* leave out the Follow Rider checkbox.  The browser runs a requested      *)
(* animation frame, and the clock advances up to the end of the time       *)
(* modelled.                                                               *)

LiveInit ==
    /\ now = 0
    /\ mounted = TRUE
    /\ mapLoaded = TRUE
    /\ mapError = FALSE
    /\ loadTimeout = FALSE
    /\ routeLoading = FALSE
    /\ routeError = FALSE
    /\ fetchState = "done"
    /\ isAnimating = FALSE
    /\ isPaused = FALSE
    /\ followRider = FALSE
    /\ riderPosition = PICKUP
    /\ progress = 0
    /\ \E coords \in RoutePayloads :
          /\ routeModelRef = buildRouteModel(JsArray(coords))
          /\ routeDistanceKm = buildRouteModel(JsArray(coords)).totalKm
    /\ isRunningRef = FALSE
    /\ startTimestampRef = Null
    /\ elapsedBeforeStartRef = 0
    /\ animationFrameId = NoFrame
    /\ pendingFrames = {}
    /\ lastOp = [op |-> "route", from |-> "Idle", ms |-> 0, first |-> FALSE,
                 pub |-> FALSE, eased |-> FALSE]
    /\ segFrom = "Idle"
    /\ tripFrom = "Idle"
    /\ runMs = 0
    /\ pausedMs = 0

LiveNext ==
    \/ AdvanceTime
    \/ MapErrorEvent
    \/ HandleStart
    \/ HandlePause
    \/ HandleReset
    \/ Frame
    \/ Unmount

LiveSpec ==
    LiveInit /\ [][LiveNext]_vars /\ WF_vars(Frame) /\ WF_vars(AdvanceTime)


----------------------------------------------------------------------------
(* Properties *)

LastPoint(routeModel) ==
    AsPoint(routeModel.coordinates[Len(routeModel.coordinates)])

MapReady == mapLoaded /\ ~mapError

\* C1 (as claimed): once a sample has computed t >= 1, onStart() without an
\* intervening onReset() is a no-op: no sample is scheduled and the
\* published progress stays at 100% at the destination.
C1_StartAfterCompletionIsNoOp ==
    [][ (Phase = "Completed" /\ lastOp'.op = "start")
          => /\ pendingFrames' = {}
             /\ progress' = 100
             /\ riderPosition' = riderPosition
             /\ ~isRunningRef' ]_vars

\* C1 (amended): once a sample has computed t >= 1, no sample is scheduled
\* and the published progress stays at 100% at the destination until the
\* next onStart() or onReset(); onStart() with the map ready then starts a
\* new trip (Running, one sample scheduled, no elapsed time, no anchor) whose
\* first sample publishes progress 0, and with the map not ready it changes
\* nothing.
C1_CompletedUntilStartOrReset ==
    /\ [][ Phase = "Completed"
             => CASE lastOp'.op = "reset" -> TRUE
                  [] lastOp'.op = "start" ->
                        IF MapReady
                        THEN /\ isRunningRef'
                             /\ Cardinality(pendingFrames') = 1
                             /\ elapsedBeforeStartRef' = 0
                             /\ startTimestampRef' = Null
                             /\ progress' = 100
                        ELSE UNCHANGED appVars
                  [] OTHER ->
                        /\ pendingFrames' = {}
                        /\ ~isRunningRef'
                        /\ progress' = 100
                        /\ riderPosition' = riderPosition ]_vars
    /\ [](lastOp.op = "tick" /\ lastOp.first /\ segFrom = "Completed"
             => lastOp.ms = 0 /\ progress = 0)

\* C1 witness: a completed trip was started again without a reset and its
\* first sample has been published.
C1_Witness ==
    /\ lastOp.op = "tick"
    /\ lastOp.first
    /\ segFrom = "Completed"
    /\ progress = 0

\* C2 (as claimed): resuming from Paused, the very next sample publishes the
\* progress that was shown while the trip was paused.
C2_ResumeShowsPausedProgress ==
    [][ ( /\ isRunningRef
          /\ segFrom = "Paused"
          /\ startTimestampRef = Null
          /\ lastOp'.op = "tick" )
          => progress' = progress ]_vars

\* C3: onReset() from any phase leaves progress 0, no accumulated time, no
\* anchor, phase Idle and no sample pending; a second reset in a row changes
\* nothing.
C3_ResetTotalIdempotent ==
    /\ [](lastOp.op = "reset"
             => /\ progress = 0
                /\ elapsedBeforeStartRef = 0
                /\ startTimestampRef = Null
                /\ ~isAnimating
                /\ ~isPaused
                /\ ~isRunningRef
                /\ Phase = "Idle"
                /\ pendingFrames = {})
    /\ [][ (lastOp.op = "reset" /\ lastOp'.op = "reset") => UNCHANGED appVars ]_vars

\* C3 witness: a reset in the middle of a run, which leaves the cancelled
\* request's id in animationFrameId.
C3_Witness ==
    /\ lastOp.op = "reset"
    /\ lastOp.from = "Running"
    /\ now > 0
    /\ animationFrameId # NoFrame

\* C4: onStart() while Running changes nothing: phase, accumulated time,
\* anchor and the pending sample stay as they are.
C4_StartWhileRunningIsNoOp ==
    [][ (isRunningRef /\ lastOp'.op = "start") => UNCHANGED appVars ]_vars

\* C4 witness: Start was clicked, map ready, in the middle of an anchored run.
C4_Witness ==
    /\ lastOp.op = "start"
    /\ lastOp.from = "Running"
    /\ MapReady
    /\ startTimestampRef # Null
    /\ now > startTimestampRef

\* C5: onPause() while not Running changes nothing: the phase does not
\* become Paused and the accumulated time is unchanged, so two pauses in a
\* row fold the run segment once.
C5_PauseWhileNotRunningIsNoOp ==
    [][ (~isRunningRef /\ lastOp'.op = "pause")
          => /\ isPaused' = isPaused
             /\ elapsedBeforeStartRef' = elapsedBeforeStartRef
             /\ UNCHANGED appVars ]_vars

\* C5 witness: a second pause, after the clock moved on, of a trip paused
\* with accumulated time.
C5_Witness ==
    /\ lastOp.op = "pause"
    /\ lastOp.from = "Paused"
    /\ elapsedBeforeStartRef > 0
    /\ pausedMs > 0

\* C6: every sample uses as elapsed time exactly the time the trip has spent
\* in a run segment since that segment's first sample, as an uninterrupted
\* run does; time spent Paused adds nothing.
C6_NoTimeLeak ==
    (lastOp.op = "tick" /\ lastOp.pub) => lastOp.ms = runMs

\* C6 witness: the first sample after a resume, of a trip that ran and then
\* stayed paused while the clock advanced.
C6_Witness ==
    /\ lastOp.op = "tick"
    /\ lastOp.first
    /\ segFrom = "Paused"
    /\ runMs > 0
    /\ pausedMs > 1

\* C7: within a trip started from Idle the published progress never
\* decreases, across any number of pauses and resumes, up to the next reset
\* or completion.
C7_ProgressMonotonic ==
    [][ ( /\ lastOp'.op = "tick"
          /\ lastOp'.pub
          /\ tripFrom = "Idle" )
          => progress' >= progress ]_vars

\* C7 witness: a sample after a resume, mid-route.
C7_Witness ==
    /\ lastOp.op = "tick"
    /\ tripFrom = "Idle"
    /\ segFrom = "Paused"
    /\ pausedMs > 0
    /\ progress = 50

\* C8: whenever the trip is not Running no sample is pending, and a frame
\* callback publishes nothing while the trip is not Running.
C8_NoSampleUnlessRunning ==
    /\ [](~isRunningRef => pendingFrames = {})
    /\ [][ (~isRunningRef /\ lastOp'.op = "tick")
             => riderPosition' = riderPosition /\ progress' = progress ]_vars

\* C8 witness: a pause that took effect in the middle of an anchored run.
C8_Witness ==
    /\ lastOp.op = "pause"
    /\ lastOp.from = "Running"
    /\ elapsedBeforeStartRef > 0
    /\ pendingFrames = {}

\* C9: at most one sampling callback is scheduled at any time, and a
\* callback either publishes one snapshot or publishes nothing and leaves
\* nothing scheduled.
C9_OneCallbackScheduled ==
    /\ Cardinality(pendingFrames) <= 1
    /\ lastOp.op = "tick" => (lastOp.pub \/ pendingFrames = {})

\* C9 witness: a callback of a resumed trip published and rescheduled itself
\* once.
C9_Witness ==
    /\ lastOp.op = "tick"
    /\ lastOp.pub
    /\ ~lastOp.first
    /\ segFrom = "Paused"
    /\ Cardinality(pendingFrames) = 1

\* C10: a sample that computes t >= 1 publishes the last point of the route
\* model at 100%, leaves Running and schedules nothing; without a Start or a
\* Reset the progress stays 100% and the position stays where it is.
C10_CompletionPublishesFinal ==
    /\ []( (lastOp.op = "tick" /\ lastOp.pub /\ lastOp.ms >= TRIP_DURATION)
             => /\ progress = 100
                /\ riderPosition = LastPoint(routeModelRef)
                /\ ~isRunningRef
                /\ ~isAnimating
                /\ ~isPaused
                /\ pendingFrames = {}
                /\ animationFrameId = NoFrame )
    /\ [][ (Phase = "Completed" /\ lastOp'.op \notin {"start", "reset"})
             => /\ Phase' = "Completed"
                /\ progress' = 100
                /\ riderPosition' = riderPosition ]_vars

\* C10 witness: a late frame computed t > 1 and the trip ended at 100%.
C10_Witness ==
    /\ lastOp.op = "tick"
    /\ lastOp.ms > TRIP_DURATION
    /\ progress = 100
    /\ Phase = "Completed"


\* C13: for every route model, positionAtProgress returns the model's first
\* point for every t <= 0 and its last point for every t >= 1.
C13_EndpointsExact ==
    lastOp.op = "query"
      => /\ lastOp.t <= 0 => riderPosition = AsPoint(routeModelRef.coordinates[1])
         /\ lastOp.t >= TRIP_DURATION => riderPosition = LastPoint(routeModelRef)

\* C13 witness: a three-point model queried above t = 1.
C13_Witness ==
    /\ lastOp.op = "query"
    /\ lastOp.t > TRIP_DURATION
    /\ Len(routeModelRef.coordinates) = 3
    /\ routeModelRef.coordinates[1] # routeModelRef.coordinates[3]

\* C14: every model built has at least 2 points and a cumulative-distance
\* sequence of the same length that starts at 0, never decreases, steps by
\* the distance between consecutive points and ends at totalKm.
C14_RouteModelShape ==
    LET coords == routeModelRef.coordinates
        cum    == routeModelRef.cumulativeKm
        n      == Len(coords)
    IN  /\ n >= 2
        /\ Len(cum) = n
        /\ cum[1] = 0
        /\ \A i \in 1..(n - 1) :
              /\ cum[i + 1] >= cum[i]
              /\ cum[i + 1] - cum[i]
                    = calculateDistanceKm(AsPoint(coords[i]), AsPoint(coords[i + 1]))
        /\ cum[n] = routeModelRef.totalKm

\* C14 witness: a model built from three distinct points.
C14_Witness ==
    /\ lastOp.op = "build"
    /\ lastOp.input.kind = "array"
    /\ routeModelRef.coordinates = << <<16, 12>>, <<16, 0>>, <<0, 0>> >>
    /\ routeModelRef.totalKm = 28

\* C15: for an input that is absent, no sequence, empty or a single point
\* buildRouteModel returns the canonical model from the pickup to the drop.
C15_DegenerateInputFallsBack ==
    ( /\ lastOp.op = "build"
      /\ (lastOp.input.kind # "array" \/ Len(lastOp.input.items) < 2) )
      => /\ routeModelRef.coordinates
               = << <<PICKUP.lng, PICKUP.lat>>, <<DROP.lng, DROP.lat>> >>
         /\ routeModelRef.cumulativeKm = << 0, calculateDistanceKm(PICKUP, DROP) >>
         /\ routeModelRef.totalKm = calculateDistanceKm(PICKUP, DROP)

\* C15 witness: a single point, not the pickup, was handed to the builder.
C15_Witness ==
    /\ lastOp.op = "build"
    /\ lastOp.input.kind = "array"
    /\ lastOp.input.items = << <<16, 0>> >>
    /\ routeModelRef.coordinates[1] = <<PICKUP.lng, PICKUP.lat>>

\* C20: for 0 < t < 1 positionAtProgress takes the smallest segment i with
\* cumulativeKm[i+1] >= totalKm * t, which is always a segment of the model,
\* and returns the interpolation of its end points at the fraction of the
\* target distance within it, or its first point when its length is zero.
C20_InteriorSegmentAndInterpolation ==
    ( lastOp.op = "query" /\ lastOp.t > 0 /\ lastOp.t < TRIP_DURATION )
      => LET coords    == routeModelRef.coordinates
             cum       == routeModelRef.cumulativeKm
             n         == Len(coords)
             target    == routeModelRef.totalKm * lastOp.t
             reaching  == { j \in 1..(n - 1) : cum[j + 1] * TRIP_DURATION >= target }
             i         == lastOp.segIdx
             span      == cum[i + 1] - cum[i]
             within    == target - cum[i] * TRIP_DURATION
         IN  /\ i \in reaching
             /\ \A j \in reaching : i <= j
             /\ riderPosition =
                   IF span = 0 THEN AsPoint(coords[i])
                   ELSE [ lng |-> coords[i][1]
                                  + ((coords[i + 1][1] - coords[i][1]) * within)
                                        \div (span * TRIP_DURATION),
                          lat |-> coords[i][2]
                                  + ((coords[i + 1][2] - coords[i][2]) * within)
                                        \div (span * TRIP_DURATION) ]

\* C20 witness: the target distance falls exactly on the boundary between
\* two segments of non-zero length and the earlier one was taken.
C20_Witness ==
    /\ lastOp.op = "query"
    /\ lastOp.segIdx = 1
    /\ Len(routeModelRef.coordinates) = 3
    /\ routeModelRef.cumulativeKm[2] * TRIP_DURATION = routeModelRef.totalKm * lastOp.t
    /\ routeModelRef.cumulativeKm[2] > 0
    /\ routeModelRef.cumulativeKm[3] > routeModelRef.cumulativeKm[2]


\* The trip is in an anchored run segment whose elapsed time reaches
\* TRIP_DURATION within the time modelled.
RunEndsInTime ==
    /\ mounted
    /\ isRunningRef
    /\ startTimestampRef # Null
    /\ startTimestampRef + TRIP_DURATION - elapsedBeforeStartRef <= MaxTime

Interrupted == lastOp.op \in {"pause", "reset", "unmount"}

\* C11: with frames firing and the clock advancing, a Running trip gets its
\* first sample, and a trip in a run segment, first or resumed, publishes
\* 100% and leaves Running, unless it is paused, reset or unmounted first.
C11_StartedTripCompletes ==
    /\ (mounted /\ isRunningRef /\ startTimestampRef = Null)
          ~> (startTimestampRef # Null \/ ~isRunningRef \/ Interrupted)
    /\ RunEndsInTime
          ~> ((~isRunningRef /\ progress = 100) \/ Interrupted)

\* C11 witness: a trip that was paused for a while and resumed has completed.
C11_Witness ==
    /\ lastOp.op = "tick"
    /\ Phase = "Completed"
    /\ tripFrom = "Idle"
    /\ pausedMs > 0
    /\ runMs >= TRIP_DURATION

\* C12: while the map is not loaded or a map error is set onStart() changes
\* nothing; a sample is only ever scheduled by an onStart() with the map
\* ready or by a running sample; and until the map has loaded the trip is
\* Idle with nothing scheduled.
C12_StartGatedByReadiness ==
    /\ [][ (~MapReady /\ lastOp'.op = "start") => UNCHANGED appVars ]_vars
    /\ [][ (pendingFrames = {} /\ pendingFrames' # {})
             => (lastOp'.op = "start" /\ MapReady) ]_vars
    /\ [](~mapLoaded
             => /\ Phase = "Idle"
                /\ ~isAnimating
                /\ elapsedBeforeStartRef = 0
                /\ pendingFrames = {})

\* C12 witness: Start was clicked on a paused trip after a map error.
C12_Witness ==
    /\ lastOp.op = "start"
    /\ lastOp.from = "Paused"
    /\ mapLoaded
    /\ mapError
    /\ Phase = "Paused"
    /\ pendingFrames = {}

\* C16: the distance remaining is totalKm of the current route model times
\* (1 - progress), lies between 0 and totalKm, is totalKm at progress 0 and
\* 0 at progress 100%.  (In hundredths of a km.)
C16_DistanceRemaining ==
    /\ distanceRemainingKm = routeModelRef.totalKm * (100 - progress)
    /\ distanceRemainingKm >= 0
    /\ distanceRemainingKm <= routeModelRef.totalKm * 100
    /\ progress = 0 => distanceRemainingKm = routeModelRef.totalKm * 100
    /\ progress = 100 => distanceRemainingKm = 0

\* C16 witness: half way along a fetched road route.
C16_Witness ==
    /\ lastOp.op = "tick"
    /\ progress = 50
    /\ routeModelRef.totalKm = 26
    /\ distanceRemainingKm = 1300

\* C17 (as claimed): for every sample published, the camera is moved to the
\* rider exactly when Follow Rider is enabled at the time of the sample.
C17_FollowReadAtEachSample ==
    (lastOp.op = "tick" /\ lastOp.pub) => (lastOp.eased = followRider)

\* C18 (as claimed): after onReset() the published position is
\* positionAtProgress(current model, 0), with 0% progress.
C18_ResetPublishesModelStart ==
    lastOp.op = "reset"
      => /\ riderPosition = positionAtProgress(routeModelRef, 0)
         /\ progress = 0

\* C18 (amended): after onReset() the published position is the fixed
\* pickup point, with 0% progress; it is positionAtProgress(current model, 0)
\* when the installed model starts at the pickup.
C18_ResetPublishesPickup ==
    lastOp.op = "reset"
      => /\ riderPosition = PICKUP
         /\ progress = 0
         /\ routeModelRef.coordinates[1] = <<PICKUP.lng, PICKUP.lat>>
               => riderPosition = positionAtProgress(routeModelRef, 0)

\* C18 witness: a reset in mid-run with a road route installed whose first
\* point is not the pickup.
C18_Witness ==
    /\ lastOp.op = "reset"
    /\ lastOp.from = "Running"
    /\ fetchState = "done"
    /\ routeModelRef.coordinates[1] # <<PICKUP.lng, PICKUP.lat>>

TripState == << isAnimating, isPaused, isRunningRef, startTimestampRef,
                elapsedBeforeStartRef, progress, riderPosition, pendingFrames,
                animationFrameId >>

\* C19: a failed fetch installs the two-point fallback model and sets the
\* advisory without touching the trip; with the advisory set Start, Pause
\* and Reset act as usual; an aborted fetch changes neither the model nor
\* the advisory.
C19_RouteFailureDegradesOnly ==
    /\ [](lastOp.op = "routefail"
             => /\ routeModelRef.coordinates
                      = << <<PICKUP.lng, PICKUP.lat>>, <<DROP.lng, DROP.lat>> >>
                /\ routeModelRef.totalKm = calculateDistanceKm(PICKUP, DROP)
                /\ routeDistanceKm = calculateDistanceKm(PICKUP, DROP)
                /\ routeError
                /\ ~routeLoading)
    /\ [][ lastOp'.op = "routefail" => UNCHANGED TripState ]_vars
    /\ [][ (routeError /\ lastOp'.op = "start" /\ MapReady /\ ~isRunningRef)
             => (isRunningRef' /\ Cardinality(pendingFrames') = 1) ]_vars
    /\ [][ (routeError /\ lastOp'.op = "pause" /\ isRunningRef)
             => (isPaused' /\ ~isRunningRef' /\ pendingFrames' = {}) ]_vars
    /\ [][ (routeError /\ lastOp'.op = "reset")
             => (~isPaused' /\ ~isRunningRef' /\ progress' = 0) ]_vars
    /\ [][ (fetchState = "inflight" /\ fetchState' = "aborted")
             => (routeModelRef' = routeModelRef /\ routeError' = routeError) ]_vars

\* C19 witness: the fetch failed in the middle of a run, which went on to
\* publish a sample.
C19_Witness ==
    /\ routeError
    /\ lastOp.op = "tick"
    /\ progress = 50
    /\ isRunningRef
    /\ routeModelRef.totalKm = calculateDistanceKm(PICKUP, DROP)

\* C21: whenever the trip is not running the anchor startTimestampRef is
\* null; whenever it is neither running nor paused (initially, after a
\* reset, after completion) elapsedBeforeStartRef is 0; handleStart never
\* writes elapsedBeforeStartRef; and the first sample of a run started from
\* such a state computes elapsed time 0 and publishes progress 0.
C21_IdleClockIsClear ==
    /\ [](~isRunningRef => startTimestampRef = Null)
    /\ [](Phase \in {"Idle", "Completed"} => elapsedBeforeStartRef = 0)
    /\ [][ lastOp'.op = "start"
             => elapsedBeforeStartRef' = elapsedBeforeStartRef ]_vars
    /\ []((lastOp.op = "tick" /\ lastOp.pub /\ lastOp.first
             /\ segFrom \in {"Idle", "Completed"})
            => (lastOp.ms = 0 /\ progress = 0))

\* C21 witness: a trip ran to completion, Start was clicked again, and the
\* first sample of the new run has been taken.
C21_Witness ==
    /\ lastOp.op = "tick"
    /\ lastOp.pub
    /\ lastOp.first
    /\ segFrom = "Completed"
    /\ lastOp.ms = 0
    /\ progress = 0
    /\ now >= TRIP_DURATION

\* C22: the arrival of the fetched polyline, in whatever phase, changes
\* neither the flags, the anchor, the accumulated time, the published
\* progress and position nor the pending frame; what it installs is a whole
\* model (its distances are those of its coordinates) whose total is the
\* published route distance; and every sample publishes the position of
\* the one model the ref holds when the sample runs.
C22_RouteSwapIsAtomic ==
    /\ [][ lastOp'.op = "route"
             => /\ UNCHANGED TripState
                /\ Phase' = Phase
                /\ routeModelRef' \in { buildRouteModel(JsArray(c)) : c \in RoutePayloads }
                /\ routeDistanceKm' = routeModelRef'.totalKm ]_vars
    /\ [](routeModelRef = buildRouteModel(JsArray(routeModelRef.coordinates)))
    /\ []((lastOp.op = "tick" /\ lastOp.pub)
            => riderPosition
                 = positionAtProgress(routeModelRef, Min(lastOp.ms, TRIP_DURATION)))

\* C22 witness: the road route arrived in the middle of a run, between two
\* samples, with a frame pending.
C22_Witness ==
    /\ lastOp.op = "route"
    /\ lastOp.from = "Running"
    /\ startTimestampRef # Null
    /\ progress = 50
    /\ Cardinality(pendingFrames) = 1
    /\ routeModelRef.coordinates[1] = <<16, 10>>

\* C23: in every state left by a handler or a sample, isAnimating holds
\* exactly when isRunningRef does, and isAnimating and isPaused never hold
\* together; so a Pause click acts exactly when the ref says the trip is
\* running, and a Start click with the map ready acts exactly when the ref
\* says it is not.
C23_FlagsAgreeWithRef ==
    /\ [](isAnimating <=> isRunningRef)
    /\ [](~(isAnimating /\ isPaused))
    /\ [][ lastOp'.op = "pause"
             => ((appVars' # appVars) <=> isRunningRef) ]_vars
    /\ [][ (lastOp'.op = "start" /\ MapReady)
             => ((appVars' # appVars) <=> ~isRunningRef) ]_vars

\* C23 witness: a trip that was paused and resumed has run to completion,
\* and Pause was clicked afterwards.
C23_Witness ==
    /\ lastOp.op = "pause"
    /\ lastOp.from = "Completed"
    /\ pausedMs > 0
    /\ progress = 100
    /\ ~isAnimating
    /\ ~isRunningRef
    /\ ~isPaused

====
